---- MODULE Spec2Model ----
(***************************************************************************)
(* Review decision pipeline of the pre-commit / pre-push hooks:            *)
(*   scripts/copilot-review.py  (per-file pipeline, CopilotReviewer, main) *)
(*   scripts/batch-review.py    (batch pipeline, BatchReviewer, main)      *)
(*                                                                         *)
(* Text is modelled at two levels.  A diff is a sequence of lines; a line  *)
(* is a record [mark, body] standing for the string mark \o body, where    *)
(* mark is the first character when it is '+', '-' or ' ' and "" for       *)
(* lines without a diff marker.  Regular expressions are modelled by the   *)
(* set of sample bodies they match (tables computed with Python's re on    *)
(* the patterns of the source); everything around them (splitting,         *)
(* filtering, quantifier order, arithmetic, formatting of the review text, *)
(* marker detection) is computed as the code computes it.  A review text   *)
(* is a sequence of word tokens and `x in text` is token membership.       *)
(***************************************************************************)
EXTENDS Integers, Sequences, FiniteSets, TLC

VARIABLES
    mode,           \* which program runs: "file", "batch", "fn", "plan"
    pc,             \* position of the running program
    files,          \* sys.argv[1:] (per-file) or the eligible file list (batch)
    threshold,      \* args.threshold (batch)
    batch_size,     \* reviewer.config.get('batch_size', 5) (batch)
    idx,            \* loop variable: position in files (1-based) of the current unit
    diff,           \* the diff / combined_diff of the current unit
    response,       \* the outcome of requests.post for the current unit
    reviews,        \* per-file: the list `reviews`; batch: the saved batch reviews
    failed_reviews, \* the list `failed_reviews` of main
    exitCode,       \* return value of main, Running before it returns
    posts,          \* number of requests.post calls made for the current unit
    examined,       \* number of rejection-marker checks main has performed
    log,            \* one record per finished unit: what happened to it
    unread,         \* files of the current unit whose diff could not be obtained
    fnIn,           \* input of the function under evaluation ("fn", "plan")
    fnOut           \* its result

vars == <<mode, pc, files, threshold, batch_size, idx, diff, response, reviews,
          failed_reviews, exitCode, posts, examined, log, unread, fnIn, fnOut>>

None == "None"       \* Python's None, where the other values are strings

Running == -1         \* exitCode while main has not returned

----------------------------------------------------------------------------
(* Bounds of the model *)

MaxArgs == 2            \* per-file pipeline: at most this many files on the command line
MaxBatchFiles == 3      \* batch pipeline: at most this many eligible files
MaxBatchSize == 2       \* batch pipeline: batch_size ranges over 1..MaxBatchSize
MaxThreshold == 2       \* batch pipeline: --threshold ranges over 0..MaxThreshold
MaxPipeLines == 1       \* pipelines: a diff or a file has at most this many lines
MaxDiffLines == 2       \* function evaluation: free diffs have at most this many lines
MaxPlanFiles == 12      \* planning: at most this many eligible files
MaxPlanThreshold == 13  \* planning: --threshold ranges over 0..MaxPlanThreshold
MaxPlanBatch == 6       \* planning: batch_size ranges over 1..MaxPlanBatch

----------------------------------------------------------------------------
(* Sequences *)

RECURSIVE SumSeq(_)
SumSeq(s) == IF s = <<>> THEN 0 ELSE Head(s) + SumSeq(Tail(s))

RECURSIVE Concat(_)
Concat(ss) == IF ss = <<>> THEN <<>> ELSE Head(ss) \o Concat(Tail(ss))

SeqsUpTo(S, n) == UNION {[1..k -> S] : k \in 0..n}

Range(s) == {s[i] : i \in DOMAIN s}

\* Python's `x in text`, on word tokens
Contains(text, token) == \E i \in DOMAIN text : text[i] = token

\* Python's s[i:j] with 0-based i, j
Slice(s, i, j) == SubSeq(s, i + 1, IF j < Len(s) THEN j ELSE Len(s))

----------------------------------------------------------------------------
(* Lines and the regular expressions of the source *)

Bodies == {"using System;", "// note", "[Serializable]", "return x;", "x = 1",
           "h = hashlib.md5(password)", "query = f'SELECT * FROM users WHERE name = {u}'",
           "query = 'SELECT * FROM t WHERE n = ' + name", "eval(s)",
           "f = open('t.txt', 'w')", "for i in range(10):", "    r += str(i)",
           "time.sleep(5)", "   "}

Line(m, b) == [mark |-> m, body |-> b]

Plus(b) == Line("+", b)

\* str.startswith(c) for c a diff marker
StartsWith(line, c) == line.mark = c

\* line[1:].strip() of a line that starts with a marker
Strip(b) ==
    IF b = "    r += str(i)" THEN "r += str(i)"
    ELSE IF b = "   " THEN ""
    ELSE b

\* config['skip_patterns'], in order: ^using\s+ , ^\s*//.*$ , ^\s*\[.*\]\s*$
skip_patterns == <<"using", "comment", "attribute">>

\* re.match(pattern, s)
SkipMatch(pattern, s) ==
    CASE pattern = "using" -> s \in {"using System;"}
      [] pattern = "comment" -> s \in {"// note"}
      [] pattern = "attribute" -> s \in {"[Serializable]"}

\* config['critical_patterns'], in order
critical_patterns == <<"security", "sql", "async", "memory">>

\* re.search(pattern, line, re.IGNORECASE) on one line of the diff
CriticalMatch(pattern, line) ==
    CASE pattern = "security" -> line.body \in {"h = hashlib.md5(password)"}
      [] pattern = "sql" -> line.body \in {"query = f'SELECT * FROM users WHERE name = {u}'",
                                           "query = 'SELECT * FROM t WHERE n = ' + name"}
      [] pattern = "async" -> FALSE
      [] pattern = "memory" -> line.body \in {"using System;"}

----------------------------------------------------------------------------
(* CopilotReviewer: the pure parts *)

\* meaningful_lines of should_skip_review
MeaningfulLines(d) ==
    SelectSeq(d, LAMBDA line : StartsWith(line, "+") \/ StartsWith(line, "-"))

\* CopilotReviewer.should_skip_review: the loop over the patterns returns True
\* at the first pattern that matches ALL meaningful lines
should_skip_review(d) ==
    LET meaningful_lines == MeaningfulLines(d)
    IN  IF Len(meaningful_lines) < 3
        THEN \E k \in DOMAIN skip_patterns :
                \A i \in DOMAIN meaningful_lines :
                    SkipMatch(skip_patterns[k], Strip(meaningful_lines[i].body))
        ELSE FALSE

\* CopilotReviewer.is_critical_change
is_critical_change(d) ==
    LET added_lines == Len(SelectSeq(d, LAMBDA line : StartsWith(line, "+")))
        removed_lines == Len(SelectSeq(d, LAMBDA line : StartsWith(line, "-")))
    IN  \/ \E k \in DOMAIN critical_patterns :
              \E i \in DOMAIN d : CriticalMatch(critical_patterns[k], d[i])
        \/ (added_lines + removed_lines) > 20

\* security_patterns + performance_patterns of _static_review, in order;
\* a message is the sequence of its words
all_patterns == <<
    [pattern |-> "weak_hash", message |-> <<"Weak", "hashing", "algorithm", "detected">>, penalty |-> 30],
    [pattern |-> "sql_concat", message |-> <<"Potential", "SQL", "injection", "vulnerability">>, penalty |-> 40],
    [pattern |-> "eval_exec", message |-> <<"Dangerous", "code", "execution", "function">>, penalty |-> 50],
    [pattern |-> "open_no_with", message |-> <<"File", "opened", "without", "context", "manager">>, penalty |-> 10],
    [pattern |-> "loop_concat", message |-> <<"Inefficient", "string", "concatenation", "in", "loop">>, penalty |-> 15],
    [pattern |-> "sleep", message |-> <<"Blocking", "sleep", "operation">>, penalty |-> 10] >>

\* re.search(pattern, diff, re.MULTILINE | re.IGNORECASE): '.' does not cross a
\* newline, so the single-line patterns match inside one line and the loop
\* pattern (for.*in.*range.*\n.*\+\s*=) on two consecutive lines
RuleMatch(pattern, d) ==
    CASE pattern = "weak_hash" ->
            \E i \in DOMAIN d : d[i].body \in {"h = hashlib.md5(password)"}
      [] pattern = "sql_concat" ->
            \E i \in DOMAIN d : d[i].body \in {"query = 'SELECT * FROM t WHERE n = ' + name"}
      [] pattern = "eval_exec" ->
            \E i \in DOMAIN d : d[i].body \in {"eval(s)"}
      [] pattern = "open_no_with" ->
            \E i \in DOMAIN d : d[i].body \in {"f = open('t.txt', 'w')"}
      [] pattern = "loop_concat" ->
            \E i \in DOMAIN d : /\ i + 1 \in DOMAIN d
                                /\ d[i].body \in {"for i in range(10):"}
                                /\ d[i + 1].body \in {"    r += str(i)"}
      [] pattern = "sleep" ->
            \E i \in DOMAIN d : d[i].body \in {"time.sleep(5)"}

\* str.lower() of a word
Lower(w) ==
    CASE w = "Weak" -> "weak"
      [] w = "Potential" -> "potential"
      [] w = "SQL" -> "sql"
      [] w = "Dangerous" -> "dangerous"
      [] w = "File" -> "file"
      [] w = "Inefficient" -> "inefficient"
      [] w = "Blocking" -> "blocking"
      [] OTHER -> w

LowerText(text) == [i \in DOMAIN text |-> Lower(text[i])]

\* a plausible slip: the loop left at the first matching rule
MatchedRules_first(d) ==
    LET m == SelectSeq(all_patterns, LAMBDA rule : RuleMatch(rule.pattern, d))
    IN  IF m = <<>> THEN m ELSE <<Head(m)>>

\* the rules for which the `if re.search(...)` of the loop over all_patterns
\* holds, in the order of the table
MatchedRules(d) == SelectSeq(all_patterns, LAMBDA rule : RuleMatch(rule.pattern, d))

\* issues.append(f"- {message}") for each of them
StaticIssues(matched) == [i \in DOMAIN matched |-> <<"-">> \o matched[i].message]

\* score = 100, then score -= penalty for each of them
StaticScore(matched) == 100 - SumSeq([i \in DOMAIN matched |-> matched[i].penalty])

\* a plausible slip: `score <= 70` for `score < 70`
StaticCritical_le(issues, score) ==
    \/ score <= 70
    \/ \E i \in DOMAIN issues :
          \/ Contains(issues[i], "injection")
          \/ Contains(LowerText(issues[i]), "dangerous")

\* critical = score < 70 or any('injection' in issue or 'dangerous' in issue.lower() ...)
StaticCritical(issues, score) ==
    \/ score < 70
    \/ \E i \in DOMAIN issues :
          \/ Contains(issues[i], "injection")
          \/ Contains(LowerText(issues[i]), "dangerous")

\* the two f-strings that build review_text
StaticText(issues, score, decision) ==
    IF issues # <<>>
    THEN <<"##", "Static", "Code", "Review", "Results",
           "**DECISION**:", decision, "(Score:", ToString(score), "/100)",
           "**ISSUES", "FOUND**:">> \o Concat(issues) \o
         <<"**RECOMMENDATIONS**:", "parameterized", "queries", "SQL", "injection",
           "*Note:", "static", "analysis", "fallback*">>
    ELSE <<"##", "Static", "Code", "Review", "Results",
           "**DECISION**:", "ACCEPT", "(Score:", ToString(score), "/100)",
           "**STATUS**:", "No", "critical", "issues", "detected",
           "*Note:", "static", "analysis", "fallback*">>

\* CopilotReviewer._static_review; diff_size counts lines here, not characters
static_review(filepath, d) ==
    LET matched == MatchedRules(d)
        issues == StaticIssues(matched)
        score == StaticScore(matched)
        critical == StaticCritical(issues, score)
        decision == IF critical THEN "REJECT" ELSE "ACCEPT"
    IN  [file |-> filepath,
         review |-> StaticText(issues, score, decision),
         critical |-> critical,
         diff_size |-> Len(d)]

\* the dict review_file returns when the response is well-formed
remote_review(filepath, d, review_text) ==
    [file |-> filepath,
     review |-> review_text,
     critical |-> is_critical_change(d),
     diff_size |-> Len(d)]

\* main's `'REJECT' in review['review'] or <localized marker> in review['review']`;
\* "VIDKHYLYTY" stands for the Ukrainian marker of the source
HasRejectMarker(review_text) ==
    Contains(review_text, "REJECT") \/ Contains(review_text, "VIDKHYLYTY")

----------------------------------------------------------------------------
(* The environment: version control, the file system, the remote scorer *)

Paths == <<"a.py", "b.py", "c.py", "d.py", "e.py", "f.py", "g.py", "h.py",
           "i.py", "j.py", "k.py", "l.py", "m.py", "n.py">>

FirstPaths(n) == SubSeq(Paths, 1, n)

\* what the files of the pipelines are made of
PipeBodies == {"using System;", "// note", "h = hashlib.md5(password)",
               "query = 'SELECT * FROM t WHERE n = ' + name"}

\* non-empty outputs of `git diff --cached -- filepath`
PipeDiffs == {[i \in DOMAIN c |-> Plus(c[i])] : c \in SeqsUpTo(PipeBodies, MaxPipeLines) \ {<<>>}}

\* contents of a file read from disk: a blank file, or lines of code
PipeContents == {<<"   ">>} \cup (SeqsUpTo(PipeBodies, MaxPipeLines) \ {<<>>})

\* content.strip() is non-empty
NonBlank(content) == \E i \in DOMAIN content : Strip(content[i]) # ""

\* f"New file: {filepath}\n" + "\n".join([f"+{line}" for line in content.split('\n')])
NewFileDiff(content) ==
    <<Line("", "New file:")>> \o [i \in DOMAIN content |-> Plus(content[i])]

\* what one call of review_file finds: the result of get_file_diff (None on a
\* non-zero return code or an exception: ok = FALSE; else stdout) and, when it
\* is needed, the result of open/read (an exception: ok = FALSE; else content)
FileSources ==
    {[git |-> [ok |-> TRUE, out |-> g], file |-> [ok |-> FALSE, content |-> <<>>]] : g \in PipeDiffs} \cup
    {[git |-> [ok |-> o, out |-> <<>>], file |-> [ok |-> TRUE, content |-> c]] :
        o \in BOOLEAN, c \in PipeContents} \cup
    {[git |-> [ok |-> o, out |-> <<>>], file |-> [ok |-> FALSE, content |-> <<>>]] : o \in BOOLEAN}

\* answers of the remote scorer to one POST: a well-formed 200 body with its
\* content (a string), 200 bodies on which response.json() or
\* result['choices'][0]['message']['content'] raises, a non-200 status, and a
\* transport exception (timeout, connection error)
RemoteTexts == {<<"**DECISION**:", "ACCEPT", "(Score:", "90)">>,
                <<"**DECISION**:", "REJECT", "(Score:", "20)">>,
                <<"VIDKHYLYTY", "(35)">>,
                <<>>}

Responses ==
    {[raised |-> "", status |-> 200, body |-> "ok", text |-> t] : t \in RemoteTexts} \cup
    {[raised |-> "", status |-> 200, body |-> b, text |-> <<>>] : b \in {"KeyError", "ValueError", "IndexError"}} \cup
    {[raised |-> "", status |-> 500, body |-> "", text |-> <<>>],
     [raised |-> "ConnectionError", status |-> 0, body |-> "", text |-> <<>>]}

NoResponse == [raised |-> "", status |-> 0, body |-> "", text |-> <<>>]

\* the request did not give a review text
RemoteFailed(r) == ~(r.raised = "" /\ r.status = 200 /\ r.body = "ok")

\* results of `git diff --cached -- filepath` inside batch_review
GitOutcomes == {"diff", "empty", "nonzero", "raise"}

----------------------------------------------------------------------------
(* copilot-review.py: review_file and main *)

\* a plausible slip: the read error swallowed and the diff built from a blank
\* content
PreparedDiff_swallow(src) ==
    IF src.git.ok /\ src.git.out # <<>>
    THEN [diff |-> src.git.out, read |-> "ok"]
    ELSE IF ~src.file.ok
         THEN [diff |-> NewFileDiff(<<"   ">>), read |-> "failed"]
         ELSE IF NonBlank(src.file.content)
              THEN [diff |-> NewFileDiff(src.file.content), read |-> "ok"]
              ELSE [diff |-> <<>>, read |-> "empty"]

\* review_file up to the request, lines 90-101: the diff to review (empty
\* when there is none) and how the read went
PreparedDiff(src) ==
    IF src.git.ok /\ src.git.out # <<>>
    THEN [diff |-> src.git.out, read |-> "ok"]
    ELSE IF ~src.file.ok
         THEN [diff |-> <<>>, read |-> "failed"]
         ELSE IF NonBlank(src.file.content)
              THEN [diff |-> NewFileDiff(src.file.content), read |-> "ok"]
              ELSE [diff |-> <<>>, read |-> "empty"]

\* a plausible slip: the outer handler narrowed to transport errors, so that an
\* IndexError on result['choices'][0] escapes
FileReviewPath_uncaught(r) ==
    IF r.raised # ""
    THEN "static"
    ELSE IF r.status = 200
         THEN IF r.body = "ok"
              THEN "remote"
              ELSE IF r.body \in {"KeyError", "ValueError"} THEN "static" ELSE "raise"
         ELSE "static"

\* a plausible slip: no fallback on a non-200 status
FileReviewPath_drop(r) ==
    IF r.raised # ""
    THEN "static"
    ELSE IF r.status = 200
         THEN IF r.body = "ok" THEN "remote" ELSE "static"
         ELSE "none"

\* review_file after the request, lines 140-162: which return statement is reached
FileReviewPath(r) ==
    IF r.raised # ""
    THEN "static"                                   \* except Exception
    ELSE IF r.status = 200
         THEN IF r.body = "ok"
              THEN "remote"
              ELSE IF r.body \in {"KeyError", "ValueError"}
                   THEN "static"                    \* except (KeyError, ValueError)
                   ELSE "static"                    \* any other error: except Exception
         ELSE "static"                              \* non-200 status

\* the dict the reached return statement builds
ReviewDict(path, filepath, d, r) ==
    IF path = "remote" THEN remote_review(filepath, d, r.text)
    ELSE static_review(filepath, d)

SourceOf(path) == IF path = "remote" THEN "REMOTE" ELSE "STATIC_FALLBACK"

\* a plausible slip: the condition inverted
ExitCodeOf_inv(failed) == IF failed # <<>> THEN 0 ELSE 1

\* main's return value, from `if failed_reviews: ... return 1` and `return 0`
ExitCodeOf(failed) == IF failed # <<>> THEN 1 ELSE 0

\* the record kept about a finished unit
LogEntry(u, ps, rd, unr, triv, rem, n, v, srcname) ==
    [unit |-> u, paths |-> ps, read |-> rd, unread |-> unr, trivial |-> triv,
     remote |-> rem, posts |-> n, verdict |-> v, source |-> srcname]

FileInit ==
    /\ mode = "file"
    /\ pc = "main"
    /\ \E n \in 0..MaxArgs : files = FirstPaths(n)
    /\ threshold = 0 /\ batch_size = 0
    /\ idx = 1
    /\ diff = <<>> /\ response = NoResponse
    /\ reviews = <<>> /\ failed_reviews = <<>>
    /\ exitCode = Running
    /\ posts = 0 /\ examined = 0
    /\ log = <<>> /\ unread = {}
    /\ fnIn = None /\ fnOut = None

\* main, lines 254-262: the usage message when there is no argument
FileMain ==
    /\ mode = "file" /\ pc = "main"
    /\ IF Len(files) = 0
       THEN pc' = "done" /\ exitCode' = 0
       ELSE pc' = "loop" /\ exitCode' = exitCode
    /\ UNCHANGED <<mode, files, threshold, batch_size, idx, diff, response, reviews,
                   failed_reviews, posts, examined, log, unread, fnIn, fnOut>>

\* one iteration of main's loop up to the request: get_file_diff, the read of
\* the file, the trivial-change gate; a None result ends the iteration
FilePrepare ==
    /\ mode = "file" /\ pc = "loop" /\ idx <= Len(files)
    /\ \E src \in FileSources :
          LET prep == PreparedDiff(src)
              none == prep.diff = <<>>
              trivial == ~none /\ should_skip_review(prep.diff)
          IN  IF none \/ trivial
              THEN /\ log' = Append(log, LogEntry(idx, <<files[idx]>>, prep.read,
                                        IF prep.read = "failed" THEN {files[idx]} ELSE {},
                                        trivial, "none", 0, FALSE, None))
                   /\ idx' = idx + 1
                   /\ UNCHANGED <<pc, diff, unread>>
              ELSE /\ diff' = prep.diff
                   /\ unread' = IF prep.read = "failed" THEN {files[idx]} ELSE {}
                   /\ pc' = "post"
                   /\ UNCHANGED <<idx, log>>
    /\ UNCHANGED <<mode, files, threshold, batch_size, response, reviews,
                   failed_reviews, exitCode, posts, examined, fnIn, fnOut>>

\* requests.post(..., timeout=30)
FilePost ==
    /\ mode = "file" /\ pc = "post"
    /\ \E r \in Responses : response' = r
    /\ posts' = posts + 1
    /\ pc' = "respond"
    /\ UNCHANGED <<mode, files, threshold, batch_size, idx, diff, reviews,
                   failed_reviews, exitCode, examined, log, unread, fnIn, fnOut>>

\* the rest of review_file and of the iteration: the review dict, then main's
\* `if review:` with reviews.append, the rejection check, failed_reviews.append.
\* An exception that no handler catches ends the process (exit status 1).
FileRespond ==
    /\ mode = "file" /\ pc = "respond"
    /\ \E path \in {FileReviewPath(response)},
          review \in {ReviewDict(FileReviewPath(response), files[idx], diff, response)},
          remote \in {IF RemoteFailed(response) THEN "failed" ELSE "ok"},
          read \in {IF unread = {} THEN "ok" ELSE "failed"} :
           IF path = "raise"
           THEN /\ pc' = "aborted" /\ exitCode' = 1
                /\ UNCHANGED <<idx, reviews, examined, failed_reviews, log>>
           ELSE /\ pc' = "loop" /\ idx' = idx + 1 /\ exitCode' = exitCode
                /\ IF path = "none"
                   THEN /\ log' = Append(log, LogEntry(idx, <<files[idx]>>, read, unread, FALSE,
                                                       remote, posts, FALSE, None))
                        /\ UNCHANGED <<reviews, examined, failed_reviews>>
                   ELSE /\ reviews' = Append(reviews, review)
                        /\ examined' = examined + 1
                        /\ failed_reviews' = IF HasRejectMarker(review.review)
                                             THEN Append(failed_reviews, review)
                                             ELSE failed_reviews
                        /\ log' = Append(log, LogEntry(idx, <<files[idx]>>, read, unread, FALSE,
                                                       remote, posts, TRUE, SourceOf(path)))
    /\ diff' = <<>> /\ response' = NoResponse /\ posts' = 0 /\ unread' = {}
    /\ UNCHANGED <<mode, files, threshold, batch_size, fnIn, fnOut>>

\* main after the loop, lines 280-291: save_review and the return value
FileFinish ==
    /\ mode = "file" /\ pc = "loop" /\ idx > Len(files)
    /\ exitCode' = ExitCodeOf(failed_reviews)
    /\ pc' = "done"
    /\ UNCHANGED <<mode, files, threshold, batch_size, idx, diff, response, reviews,
                   failed_reviews, posts, examined, log, unread, fnIn, fnOut>>

----------------------------------------------------------------------------
(* batch-review.py: batch_review and main *)

\* range(i, n, step) as a sequence
RECURSIVE PyRange(_, _, _)
PyRange(i, n, step) == IF i >= n THEN <<>> ELSE <<i>> \o PyRange(i + step, n, step)

\* a plausible slip: the slice one element short
BatchFilesAt_short(fs, i, size) == Slice(fs, i, i + size - 1)

\* batch_files = files[i:i+batch_size]
BatchFilesAt(fs, i, size) == Slice(fs, i, i + size)

\* `if len(files) < args.threshold: ... return 0`
BatchModeOff(fs, thr) == Len(fs) < thr

\* main, lines 171-182: whether batch mode is off and the groups the loop
\* reviews, in order
BatchPlan(fs, thr, size) ==
    IF BatchModeOff(fs, thr)
    THEN [off |-> TRUE, groups |-> <<>>]
    ELSE LET starts == PyRange(0, Len(fs), size)
         IN  [off |-> FALSE, groups |-> [k \in DOMAIN starts |-> BatchFilesAt(fs, starts[k], size)]]

\* combined_diff += f"\n\n### {filepath}\n{result.stdout}" for the files whose
\* diff was obtained (return code 0 and a non-empty stdout)
RECURSIVE CombinedDiff(_, _)
CombinedDiff(batch_files, res) ==
    IF batch_files = <<>> THEN <<>>
    ELSE (IF Head(res) = "diff"
          THEN <<Line("", Head(batch_files)), Plus("x = 1")>>
          ELSE <<>>) \o CombinedDiff(Tail(batch_files), Tail(res))

\* batch_review after the request, lines 113-127: a dict only for a well-formed
\* 200 response; every exception is caught and None returned
BatchReviewPath(r) ==
    IF r.raised # ""
    THEN "none"
    ELSE IF r.status = 200
         THEN IF r.body = "ok" THEN "remote" ELSE "none"
         ELSE "none"

\* a plausible slip: only the first file of a rejected batch is recorded
RejectedAfter_first(failed, batch_files) == Append(failed, Head(batch_files))

\* failed_reviews.extend(batch_files)
RejectedAfter(failed, batch_files) == failed \o batch_files

BatchInit ==
    /\ mode = "batch"
    /\ pc = "main"
    /\ \E n \in 0..MaxBatchFiles : files = FirstPaths(n)
    /\ threshold \in 0..MaxThreshold
    /\ batch_size \in 1..MaxBatchSize
    /\ idx = 1
    /\ diff = <<>> /\ response = NoResponse
    /\ reviews = <<>> /\ failed_reviews = <<>>
    /\ exitCode = Running
    /\ posts = 0 /\ examined = 0
    /\ log = <<>> /\ unread = {}
    /\ fnIn = None /\ fnOut = None

\* the batch the loop is at: idx counts the values of range(0, len(files), batch_size)
CurrentBatch == BatchPlan(files, threshold, batch_size).groups[idx]

NumBatches == Len(BatchPlan(files, threshold, batch_size).groups)

\* main, lines 171-179: the threshold test
BatchMain ==
    /\ mode = "batch" /\ pc = "main"
    /\ IF BatchPlan(files, threshold, batch_size).off
       THEN pc' = "done" /\ exitCode' = 0
       ELSE pc' = "loop" /\ exitCode' = exitCode
    /\ UNCHANGED <<mode, files, threshold, batch_size, idx, diff, response, reviews,
                   failed_reviews, posts, examined, log, unread, fnIn, fnOut>>

\* one iteration of main's loop up to the request: the slice and the diffs of
\* its files; with no diff at all batch_review returns None and main goes on
BatchCollect ==
    /\ mode = "batch" /\ pc = "loop" /\ idx <= NumBatches
    /\ LET batch_files == CurrentBatch
       IN  \E res \in [1..Len(batch_files) -> GitOutcomes] :
              LET combined_diff == CombinedDiff(batch_files, res)
                  unr == {batch_files[i] : i \in {j \in DOMAIN res : res[j] \in {"nonzero", "raise"}}}
              IN  IF combined_diff = <<>>
                  THEN /\ log' = Append(log, LogEntry(idx, batch_files,
                                            IF unr # {} THEN "failed" ELSE "empty",
                                            unr, FALSE, "none", 0, FALSE, None))
                       /\ idx' = idx + 1
                       /\ UNCHANGED <<pc, diff, unread>>
                  ELSE /\ diff' = combined_diff
                       /\ unread' = unr
                       /\ pc' = "post"
                       /\ UNCHANGED <<idx, log>>
    /\ UNCHANGED <<mode, files, threshold, batch_size, response, reviews,
                   failed_reviews, exitCode, posts, examined, fnIn, fnOut>>

\* requests.post(..., timeout=60)
BatchPost ==
    /\ mode = "batch" /\ pc = "post"
    /\ \E r \in Responses : response' = r
    /\ posts' = posts + 1
    /\ pc' = "respond"
    /\ UNCHANGED <<mode, files, threshold, batch_size, idx, diff, reviews,
                   failed_reviews, exitCode, examined, log, unread, fnIn, fnOut>>

\* the rest of batch_review and of the iteration: `if review:` with
\* save_batch_review and the rejection check, else "Review failed".
\* An exception that no handler catches ends the process (exit status 1).
BatchRespond ==
    /\ mode = "batch" /\ pc = "respond"
    /\ \E batch_files \in {CurrentBatch},
          path \in {BatchReviewPath(response)},
          review \in {[files |-> CurrentBatch, review |-> response.text,
                       priority |-> "normal", total_files |-> Len(CurrentBatch)]},
          remote \in {IF RemoteFailed(response) THEN "failed" ELSE "ok"},
          read \in {IF Range(CurrentBatch) \subseteq unread THEN "failed" ELSE "ok"} :
           IF path = "raise"
           THEN /\ pc' = "aborted" /\ exitCode' = 1
                /\ UNCHANGED <<idx, reviews, examined, failed_reviews, log>>
           ELSE /\ pc' = "loop" /\ idx' = idx + 1 /\ exitCode' = exitCode
                /\ IF path = "none"
                   THEN /\ log' = Append(log, LogEntry(idx, batch_files, read, unread, FALSE,
                                                       remote, posts, FALSE, None))
                        /\ UNCHANGED <<reviews, examined, failed_reviews>>
                   ELSE /\ reviews' = Append(reviews, review)
                        /\ examined' = examined + 1
                        /\ failed_reviews' = IF HasRejectMarker(review.review)
                                             THEN RejectedAfter(failed_reviews, batch_files)
                                             ELSE failed_reviews
                        /\ log' = Append(log, LogEntry(idx, batch_files, read, unread, FALSE,
                                                       remote, posts, TRUE, SourceOf(path)))
    /\ diff' = <<>> /\ response' = NoResponse /\ posts' = 0 /\ unread' = {}
    /\ UNCHANGED <<mode, files, threshold, batch_size, fnIn, fnOut>>

\* main after the loop, lines 198-205
BatchFinish ==
    /\ mode = "batch" /\ pc = "loop" /\ idx > NumBatches
    /\ exitCode' = ExitCodeOf(failed_reviews)
    /\ pc' = "done"
    /\ UNCHANGED <<mode, files, threshold, batch_size, idx, diff, response, reviews,
                   failed_reviews, posts, examined, log, unread, fnIn, fnOut>>

----------------------------------------------------------------------------
(* The two pipelines *)

Init == FileInit \/ BatchInit

Next == FileMain \/ FilePrepare \/ FilePost \/ FileRespond \/ FileFinish
        \/ BatchMain \/ BatchCollect \/ BatchPost \/ BatchRespond \/ BatchFinish

Spec == Init /\ [][Next]_vars

\* the program is sequential and every blocking call is bounded by a timeout:
\* a step that can be taken is taken
FairSpec == Spec /\ WF_vars(Next)

----------------------------------------------------------------------------
(* The functions evaluated on their own: should_skip_review, _static_review, *)
(* is_critical_change on a diff, and the grouping of main on a file list     *)

\* lines of the free diffs: every sample body as an added line, a context
\* line and a removed line
FnLines == {Plus(b) : b \in Bodies \ {"   "}} \cup {Line(" ", "return x;"), Line("-", "// note")}

\* the lines that make rule k of all_patterns match
Trigger(k) ==
    CASE k = 1 -> <<Plus("h = hashlib.md5(password)")>>
      [] k = 2 -> <<Plus("query = 'SELECT * FROM t WHERE n = ' + name")>>
      [] k = 3 -> <<Plus("eval(s)")>>
      [] k = 4 -> <<Plus("f = open('t.txt', 'w')")>>
      [] k = 5 -> <<Plus("for i in range(10):"), Plus("    r += str(i)")>>
      [] k = 6 -> <<Plus("time.sleep(5)")>>

\* a diff in which exactly the rules of S match
RECURSIVE RuleDiff(_, _)
RuleDiff(S, k) ==
    IF k > Len(all_patterns) THEN <<>>
    ELSE (IF k \in S THEN Trigger(k) ELSE <<>>) \o RuleDiff(S, k + 1)

FnDiffs == SeqsUpTo(FnLines, MaxDiffLines)
           \cup {RuleDiff(S, 1) : S \in SUBSET DOMAIN all_patterns}

FnInit ==
    /\ \/ mode = "fn" /\ fnIn \in FnDiffs
       \/ /\ mode = "plan"
          /\ \E n \in 0..MaxPlanFiles, thr \in 0..MaxPlanThreshold, size \in 1..MaxPlanBatch :
                fnIn = [files |-> FirstPaths(n), threshold |-> thr, batch_size |-> size]
    /\ pc = "call"
    /\ fnOut = None
    /\ files = <<>> /\ threshold = 0 /\ batch_size = 0 /\ idx = 1
    /\ diff = <<>> /\ response = NoResponse
    /\ reviews = <<>> /\ failed_reviews = <<>>
    /\ exitCode = Running
    /\ posts = 0 /\ examined = 0
    /\ log = <<>> /\ unread = {}

FnReturn(where, result) ==
    /\ pc = "call"
    /\ pc' = where
    /\ fnOut' = result
    /\ UNCHANGED <<mode, files, threshold, batch_size, idx, diff, response, reviews,
                   failed_reviews, exitCode, posts, examined, log, unread, fnIn>>

FnShouldSkip == mode = "fn" /\ FnReturn("should_skip_review", [skip |-> should_skip_review(fnIn)])

FnStaticReview == mode = "fn" /\ FnReturn("static_review", static_review("a.py", fnIn))

FnIsCritical == mode = "fn" /\ FnReturn("is_critical_change", [critical |-> is_critical_change(fnIn)])

FnPlan == mode = "plan" /\ FnReturn("plan", BatchPlan(fnIn.files, fnIn.threshold, fnIn.batch_size))

FnNext == FnShouldSkip \/ FnStaticReview \/ FnIsCritical \/ FnPlan

FnSpec == FnInit /\ [][FnNext]_vars

----------------------------------------------------------------------------
(* Vocabulary of the properties *)

Pipeline == mode \in {"file", "batch"}

\* the rejected set: the paths main lists as rejected
Rejected ==
    IF mode = "file" THEN {failed_reviews[i].file : i \in DOMAIN failed_reviews}
    ELSE Range(failed_reviews)

\* the paths a Verdict covers
Covered(v) == IF mode = "file" THEN {v.file} ELSE Range(v.files)

\* a Verdict's decision is REJECT: its text holds a rejection marker
DecisionReject(v) == Contains(v.review, "REJECT") \/ Contains(v.review, "VIDKHYLYTY")

\* the number of review units of the run
NumUnits ==
    IF mode = "file" THEN Len(files)
    ELSE IF Len(files) < threshold THEN 0
    ELSE (Len(files) + batch_size - 1) \div batch_size

RECURSIVE SumSet(_, _)
SumSet(S, f) ==
    IF S = {} THEN 0
    ELSE LET x == CHOOSE y \in S : TRUE IN f[x] + SumSet(S \ {x}, f)

\* the rules of the static analyzer that match the input diff, and the
\* penalties the specification gives them
Matched == {k \in 1..6 : RuleMatch(all_patterns[k].pattern, fnIn)}

Penalty == <<30, 40, 50, 10, 15, 10>>

StaticCalled == mode = "fn" /\ pc = "static_review"

\* the fields of the static Verdict as they appear in the review text
TextDecision == fnOut.review[7]

TextScore == fnOut.review[9]

----------------------------------------------------------------------------
(* C1 *)

\* C1: every review unit whose remote request failed (non-200, exception,
\* malformed 200 body) has a Verdict with source STATIC_FALLBACK, and the run
\* never aborts.  The batch pipeline returns None and logs "Review failed".
C1_FailureYieldsFallbackVerdict ==
    Pipeline =>
        /\ pc # "aborted"
        /\ \A i \in DOMAIN log :
              log[i].remote = "failed" =>
                  log[i].verdict /\ log[i].source = "STATIC_FALLBACK"

----------------------------------------------------------------------------
(* C2 *)

\* C2: at termination of either pipeline the exit code is 1 iff the rejected
\* set is non-empty, iff some produced Verdict's text holds a rejection marker,
\* and 0 otherwise (also when nothing was reviewed or batch mode is off).
C2_ExitCodeIffRejected ==
    (Pipeline /\ pc = "done") =>
        /\ exitCode \in {0, 1}
        /\ exitCode = 1 <=> Rejected # {}
        /\ Rejected # {} <=> \E i \in DOMAIN reviews : DecisionReject(reviews[i])

C2_Witness ==
    /\ Pipeline /\ pc = "done" /\ exitCode = 1 /\ Rejected # {}
    /\ \E i \in DOMAIN reviews : ~DecisionReject(reviews[i])

----------------------------------------------------------------------------
(* C3 *)

\* C3: the rejected set is exactly the union of the paths covered by the
\* Verdicts whose decision is REJECT (a rejected batch contributes every
\* member file), and no path of an accepted unit or of a unit without a
\* Verdict is in it.
C3_RejectedIsUnionOfRejectVerdicts ==
    Pipeline =>
        /\ Rejected = UNION {Covered(reviews[i]) : i \in {j \in DOMAIN reviews : DecisionReject(reviews[j])}}
        /\ \A i \in DOMAIN log : ~log[i].verdict => Range(log[i].paths) \cap Rejected = {}
        /\ \A i \in DOMAIN reviews :
              ~DecisionReject(reviews[i]) => Covered(reviews[i]) \cap Rejected = {}

C3_Witness ==
    /\ mode = "batch" /\ pc = "done"
    /\ \E i \in DOMAIN reviews :
          /\ DecisionReject(reviews[i])
          /\ reviews[i].files = <<"a.py", "b.py">>
          /\ {"a.py", "b.py"} \subseteq Rejected
    /\ \E i \in DOMAIN reviews : ~DecisionReject(reviews[i])

----------------------------------------------------------------------------
(* C4 *)

\* the trivial diffs of the claim: fewer than 3 meaningful lines, each of
\* which, marker stripped, matches at least one skip-pattern
ClaimTrivial(d) ==
    LET m == MeaningfulLines(d)
    IN  /\ Len(m) < 3
        /\ \A i \in DOMAIN m :
              \E k \in DOMAIN skip_patterns : SkipMatch(skip_patterns[k], Strip(m[i].body))

\* C4: shouldSkip returns true for every diff with fewer than 3 meaningful
\* lines each of which matches at least one skip-pattern (not necessarily the
\* same one).  The code wants ONE pattern that matches all the lines.
C4_SkipsEveryTrivialDiff ==
    (mode = "fn" /\ pc = "should_skip_review" /\ ClaimTrivial(fnIn)) => fnOut.skip

----------------------------------------------------------------------------
(* C5 *)

\* C5: for every set of matching rules the static analyzer gives score = 100
\* minus the penalties of the matching rules, critical iff score < 70 or the
\* SQL-injection or the dangerous-execution rule matched, decision REJECT iff
\* a rule matched and critical, and the text holds REJECT exactly then; the
\* weak-hashing rule alone gives 70, not critical, ACCEPT.
C5_StaticVerdict ==
    StaticCalled =>
        LET score == 100 - SumSet(Matched, Penalty)
            critical == score < 70 \/ 2 \in Matched \/ 3 \in Matched
            reject == Matched # {} /\ critical
        IN  /\ TextScore = ToString(score)
            /\ fnOut.critical = critical
            /\ TextDecision = (IF reject THEN "REJECT" ELSE "ACCEPT")
            /\ Contains(fnOut.review, "REJECT") <=> reject
            /\ Matched = {1} =>
                  TextScore = "70" /\ ~fnOut.critical /\ TextDecision = "ACCEPT"

C5_Witness ==
    /\ StaticCalled /\ Matched = {1}
    /\ TextScore = "70" /\ ~fnOut.critical /\ TextDecision = "ACCEPT"

----------------------------------------------------------------------------
(* C6 *)

HasBody(d, b) == \E i \in DOMAIN d : d[i].body = b

----------------------------------------------------------------------------
(* C7 *)

\* C7: batch mode is off, and nothing is grouped, iff len(files) < threshold;
\* otherwise the files are split into consecutive groups in the original
\* order, all but the last of exactly batchSize files, the last of 1 to
\* batchSize, every file in exactly one group, the groups concatenating to the
\* input; 12 files with threshold 10 and batchSize 5 give sizes [5,5,2].
C7_BatchPlan ==
    (mode = "plan" /\ pc = "plan") =>
        LET fs == fnIn.files
            size == fnIn.batch_size
            groups == fnOut.groups
            n == Len(groups)
        IN  /\ fnOut.off <=> Len(fs) < fnIn.threshold
            /\ fnOut.off => groups = <<>>
            /\ ~fnOut.off =>
                  /\ Concat(groups) = fs
                  /\ \A k \in 1..(n - 1) : Len(groups[k]) = size
                  /\ n > 0 => Len(groups[n]) \in 1..size
                  /\ \A i \in DOMAIN fs :
                        Cardinality({k \in 1..n : fs[i] \in Range(groups[k])}) = 1
            /\ (Len(fs) = 12 /\ fnIn.threshold = 10 /\ size = 5) =>
                  [k \in 1..n |-> Len(groups[k])] = <<5, 5, 2>>

C7_Witness ==
    /\ mode = "plan" /\ pc = "plan"
    /\ Len(fnIn.files) = 12 /\ fnIn.threshold = 10 /\ fnIn.batch_size = 5
    /\ ~fnOut.off
    /\ [k \in DOMAIN fnOut.groups |-> Len(fnOut.groups[k])] = <<5, 5, 2>>

----------------------------------------------------------------------------
(* C8 *)

PositionOf(f) == CHOOSE k \in DOMAIN files : files[k] = f

\* C8: in the per-file pipeline the list of Verdicts holds at most one Verdict
\* per input file, in the order the files were supplied; at termination every
\* file that was neither skipped as trivial or empty nor dropped by a read
\* failure has exactly one Verdict, and each Verdict was examined exactly once.
C8_OneVerdictPerFileInOrder ==
    mode = "file" =>
        /\ \A i \in DOMAIN reviews : reviews[i].file \in Range(files)
        /\ \A i, j \in DOMAIN reviews :
              i < j => PositionOf(reviews[i].file) < PositionOf(reviews[j].file)
        /\ examined = Len(reviews)
        /\ pc = "done" =>
              /\ Len(log) = Len(files)
              /\ \A k \in DOMAIN log :
                    (~log[k].trivial /\ log[k].read = "ok") =>
                        Cardinality({i \in DOMAIN reviews : reviews[i].file = files[k]}) = 1

C8_Witness ==
    /\ mode = "file" /\ pc = "done" /\ Len(files) = 2
    /\ log[1].trivial
    /\ ~log[2].trivial /\ log[2].read = "ok"
    /\ Len(reviews) = 1 /\ reviews[1].file = files[2]

----------------------------------------------------------------------------
(* C9 *)

\* C9 as stated: a file whose diff and content cannot be obtained yields no
\* Verdict, causes no remote request and is never in the rejected set, in
\* either pipeline.
C9_UnreadFileNeverRejected ==
    Pipeline =>
        \A i \in DOMAIN log : \A f \in log[i].unread :
            /\ f \notin Rejected
            /\ \A j \in DOMAIN reviews : f \notin Covered(reviews[j])

\* C9 amended: in the per-file pipeline a file whose diff and content cannot be
\* obtained yields no Verdict, causes no remote request, is covered by no
\* Verdict and is never in the rejected set; in the batch pipeline the same
\* holds of a batch none of whose diffs was obtained, while a file whose diff
\* was not obtained inside a batch that has another file's diff stays a member
\* of the batch: it is in the rejected set exactly when that batch's Verdict
\* is a rejection.
C9_ReadFailure ==
    Pipeline =>
        \A i \in DOMAIN log :
            /\ log[i].read = "failed" =>
                  /\ ~log[i].verdict
                  /\ log[i].posts = 0 /\ log[i].remote = "none"
                  /\ Range(log[i].paths) \cap Rejected = {}
                  /\ \A j \in DOMAIN reviews : Range(log[i].paths) \cap Covered(reviews[j]) = {}
            /\ (mode = "file" /\ log[i].unread # {}) => log[i].read = "failed"
            /\ (mode = "batch" /\ log[i].read # "failed") =>
                  \A f \in log[i].unread :
                      f \in Rejected <=>
                          \E j \in DOMAIN reviews :
                              reviews[j].files = log[i].paths /\ DecisionReject(reviews[j])

C9_Witness ==
    /\ mode = "file" /\ pc = "done" /\ Len(files) = 2
    /\ log[1].read = "failed" /\ log[1].unread = {files[1]}
    /\ log[2].verdict /\ Rejected = {files[2]}

----------------------------------------------------------------------------
(* C10 *)

----------------------------------------------------------------------------
(* C11 *)

\* the step ends the current unit with a Verdict of the static analyzer
FallbackStep ==
    /\ Len(log') = Len(log) + 1
    /\ log'[Len(log')].verdict
    /\ log'[Len(log')].source = "STATIC_FALLBACK"

\* C11: no retry: a unit causes at most one remote request; after a failed
\* request no second request is issued for it and the next step for it is the
\* static fallback; the static fallback runs only after the unit's single
\* request has failed, never after a well-formed answer.  The batch pipeline
\* has no static fallback (see C1): its next step drops the unit.
C11_NoRetryThenFallback ==
    [][Pipeline =>
        /\ posts' <= 1
        /\ (pc = "respond" /\ RemoteFailed(response)) =>
               (pc' # "post" /\ posts = 1 /\ FallbackStep)
        /\ FallbackStep => (pc = "respond" /\ RemoteFailed(response) /\ posts = 1)]_vars

====
